---- MODULE Spec2Model ----
(***************************************************************************)
(* Container loading (3D bin packing), src/container_packing.py.           *)
(*                                                                         *)
(* Lengths are integers counted in units of the tolerance 0.001 that       *)
(* can_place and _intersects add to their comparisons, so EPS is 1 and a   *)
(* length of 10 stands for 0.010.  Arithmetic is exact.                    *)
(*                                                                         *)
(* Spec      solve_packing_problem for any manifest, container and filler  *)
(* SpecCalls any sequence of place_box calls on one Container              *)
(* SpecRot   get_rotations on its own                                      *)
(***************************************************************************)
EXTENDS Integers, Sequences, FiniteSets

VARIABLES
    container,      \* Container: [length, width, height], or NoContainer
    placed_boxes,   \* Container.placed_boxes: sequence of Position records
    boxes,          \* solve_packing_problem: the list of Box records
    pc,             \* position in the program
    idx,            \* position of the `for box in boxes` loop (1-based)
    box,            \* the Box most recently passed to place_box (NoBox before)
    ret,            \* what that call returned: "True", "False" ("none" before)
    placed_count,   \* solve_packing_problem: placed_count
    failed_boxes,   \* solve_packing_problem: failed_boxes
    hcs_box,        \* solve_packing_problem: the filler (NoBox before line 215)
    hcs_count,      \* solve_packing_problem: hcs_count
    hcs_id,         \* solve_packing_problem: hcs_id
    attempted,      \* history: the boxes passed to place_box by the batch loop
    rotations       \* result of the last get_rotations call of the rotation spec

vars == <<container, placed_boxes, boxes, pc, idx, box, ret, placed_count,
          failed_boxes, hcs_box, hcs_count, hcs_id, attempted, rotations>>

----------------------------------------------------------------------------
(* Bounds and input sets *)

\* the tolerance 0.001, the unit of length of this model
EPS == 1

\* longest manifest handed to the driver
MaxItems == 2

\* most records a container holds before the model stops adding more
MaxPlaced == 3

\* largest value of a dimension in the rotation specification
MaxRotDim == 3

\* tolerance units in one unit of length of the scenarios
Unit == 100

\* longest mixed manifest of the scenarios
MaxScenItems == 3

\* longest manifest of unit cubes of the scenarios
MaxCubes == 8

\* most records a container of the scenarios holds before the model stops
\* adding more
MaxScenPlaced == 8

\* containers of the scenarios, in units: A (2,2,2), D (2,1,1), C (4,4,4),
\* two smaller ones and a taller one
ScenContainers ==
    {<<2, 2, 2>>, <<2, 1, 1>>, <<4, 4, 4>>, <<1, 1, 1>>, <<2, 2, 1>>,
     <<2, 2, 3>>}

\* items of the scenarios, in units: the unit cube, D's (2,1,1), B's (3,1,1),
\* C's (4,4,4) and a (1,2,1) slab
ScenTypes ==
    {<<1, 1, 1>>, <<2, 1, 1>>, <<3, 1, 1>>, <<4, 4, 4>>, <<1, 2, 1>>}

\* fillers of the scenarios: the unit cube, a (1,2,1) slab, and a cube one
\* tolerance larger than the unit cube
ScenFillers ==
    {<<Unit, Unit, Unit>>, <<Unit, 2 * Unit, Unit>>,
     <<Unit + EPS, Unit + EPS, Unit + EPS>>}

\* dimension values of items: 1 is exactly the tolerance, 10 is ten times it
BoxDims == {1, 10}

\* dimension values of containers
ContainerDims == {10, 20}

\* dimension values a caller may hand to the Container constructor: 0 is
\* not a positive extent
RawDims == {0, 10, 20}

NoBox == [name |-> "none"]

\* what place_box returned, as the variable ret holds it
Returned(ok) == IF ok THEN "True" ELSE "False"

NoContainer == [length |-> 0, width |-> 0, height |-> 0]

\* Box(name, length, width, height, quantity, id)
Box(name, l, w, h, id) ==
    [name |-> name, length |-> l, width |-> w, height |-> h,
     quantity |-> 1, id |-> id]

\* a Position that records the width where the height belongs
Position_width_as_height(x, y, z, l, w, h, name, id) ==
    [x |-> x, y |-> y, z |-> z, length |-> l, width |-> w, height |-> w,
     box_name |-> name, box_id |-> id]

\* Position(x, y, z, length, width, height, box_name, box_id)
Position(x, y, z, l, w, h, name, id) ==
    [x |-> x, y |-> y, z |-> z, length |-> l, width |-> w, height |-> h,
     box_name |-> name, box_id |-> id]

\* Container(length, width, height): the fields __init__ stores
Container(l, w, h) == [length |-> l, width |-> w, height |-> h]

----------------------------------------------------------------------------
(* Box *)

\* Box.volume
volume(b) == b.length * b.width * b.height

RECURSIVE unique_rotations(_, _)
\* the de-duplication loop of get_rotations over the first n rotations
unique_rotations(rots, n) ==
    IF n = 0 THEN <<>>
    ELSE LET u == unique_rotations(rots, n - 1) IN
         IF \E j \in 1..Len(u) : u[j] = rots[n] THEN u ELSE Append(u, rots[n])

\* get_rotations without its de-duplication loop
get_rotations_no_dedup(b) ==
    << <<b.length, b.width, b.height>>, <<b.length, b.height, b.width>>,
       <<b.width, b.length, b.height>>, <<b.width, b.height, b.length>>,
       <<b.height, b.length, b.width>>, <<b.height, b.width, b.length>> >>

\* Box.get_rotations
get_rotations(b) ==
    LET l == b.length
        w == b.width
        h == b.height
        rots == << <<l, w, h>>, <<l, h, w>>, <<w, l, h>>,
                   <<w, h, l>>, <<h, l, w>>, <<h, w, l>> >>
    IN unique_rotations(rots, Len(rots))

----------------------------------------------------------------------------
(* Container *)

\* Container.volume
container_volume(c) == c.length * c.width * c.height

RECURSIVE used_volume(_)
\* Container.used_volume
used_volume(placed) ==
    IF placed = <<>> THEN 0
    ELSE LET p == placed[Len(placed)] IN
         used_volume(SubSeq(placed, 1, Len(placed) - 1))
           + p.length * p.width * p.height

\* Container.available_volume
available_volume(c, placed) == container_volume(c) - used_volume(placed)

\* _intersects with a tolerance ten times too wide
_intersects_wide_tolerance(x, y, z, l, w, h, p) ==
    ~ (\/ x + l <= p.x + 10 * EPS
       \/ p.x + p.length <= x + 10 * EPS
       \/ y + w <= p.y + 10 * EPS
       \/ p.y + p.width <= y + 10 * EPS
       \/ z + h <= p.z + 10 * EPS
       \/ p.z + p.height <= z + 10 * EPS)

\* Container._intersects
_intersects(x, y, z, l, w, h, p) ==
    ~ (\/ x + l <= p.x + EPS
       \/ p.x + p.length <= x + EPS
       \/ y + w <= p.y + EPS
       \/ p.y + p.width <= y + EPS
       \/ z + h <= p.z + EPS
       \/ p.z + p.height <= z + EPS)

\* can_place returning from inside its loop, after the first record
can_place_first_only(c, placed, x, y, z, l, w, h) ==
    IF x + l > c.length + EPS THEN FALSE
    ELSE IF y + w > c.width + EPS THEN FALSE
    ELSE IF z + h > c.height + EPS THEN FALSE
    ELSE placed = <<>> \/ ~ _intersects(x, y, z, l, w, h, placed[1])

\* can_place looking at the newest record only
can_place_newest_only(c, placed, x, y, z, l, w, h) ==
    IF x + l > c.length + EPS THEN FALSE
    ELSE IF y + w > c.width + EPS THEN FALSE
    ELSE IF z + h > c.height + EPS THEN FALSE
    ELSE placed = <<>>
           \/ ~ _intersects(x, y, z, l, w, h, placed[Len(placed)])

\* can_place without the check against the container's length
can_place_no_length_check(c, placed, x, y, z, l, w, h) ==
    IF y + w > c.width + EPS THEN FALSE
    ELSE IF z + h > c.height + EPS THEN FALSE
    ELSE \A i \in 1..Len(placed) : ~ _intersects(x, y, z, l, w, h, placed[i])

\* can_place without the check against the container's width
can_place_no_width_check(c, placed, x, y, z, l, w, h) ==
    IF x + l > c.length + EPS THEN FALSE
    ELSE IF z + h > c.height + EPS THEN FALSE
    ELSE \A i \in 1..Len(placed) : ~ _intersects(x, y, z, l, w, h, placed[i])

\* Container.can_place
can_place(c, placed, x, y, z, l, w, h) ==
    IF x + l > c.length + EPS THEN FALSE
    ELSE IF y + w > c.width + EPS THEN FALSE
    ELSE IF z + h > c.height + EPS THEN FALSE
    ELSE \A i \in 1..Len(placed) : ~ _intersects(x, y, z, l, w, h, placed[i])

RECURSIVE candidate_positions_far_corner(_)
\* the candidate list with the far corner of each record in place of the
\* three points along the axes
candidate_positions_far_corner(placed) ==
    IF placed = <<>> THEN << <<0, 0, 0>> >>
    ELSE LET p == placed[Len(placed)] IN
         candidate_positions_far_corner(SubSeq(placed, 1, Len(placed) - 1))
           \o << <<p.x + p.length, p.y + p.width, p.z + p.height>> >>

RECURSIVE candidate_positions_no_top(_)
\* the candidate list without the points on top of the records
candidate_positions_no_top(placed) ==
    IF placed = <<>> THEN << <<0, 0, 0>> >>
    ELSE LET p == placed[Len(placed)] IN
         candidate_positions_no_top(SubSeq(placed, 1, Len(placed) - 1))
           \o << <<p.x + p.length, p.y, p.z>>,
                 <<p.x, p.y + p.width, p.z>> >>

RECURSIVE candidate_positions(_)
\* find_placement_position: the candidate list before sorting
candidate_positions(placed) ==
    IF placed = <<>> THEN << <<0, 0, 0>> >>
    ELSE LET p == placed[Len(placed)] IN
         candidate_positions(SubSeq(placed, 1, Len(placed) - 1))
           \o << <<p.x + p.length, p.y, p.z>>,
                 <<p.x, p.y + p.width, p.z>>,
                 <<p.x, p.y, p.z + p.height>> >>

\* the sort key (p[0], p[1], p[2]) in place of (p[2], p[0], p[1])
key_less_xyz(a, b) ==
    \/ a[1] < b[1]
    \/ a[1] = b[1] /\ a[2] < b[2]
    \/ a[1] = b[1] /\ a[2] = b[2] /\ a[3] < b[3]

\* the sort key (p[2], p[0], p[1]) of a candidate (x, y, z): a before b
key_less(a, b) ==
    \/ a[3] < b[3]
    \/ a[3] = b[3] /\ a[1] < b[1]
    \/ a[3] = b[3] /\ a[1] = b[1] /\ a[2] < b[2]

\* insert e into the sorted list s after every entry that is not after it
insert_by_key(s, e) ==
    LET k == Cardinality({i \in 1..Len(s) : ~ key_less(e, s[i])})
    IN SubSeq(s, 1, k) \o <<e>> \o SubSeq(s, k + 1, Len(s))

RECURSIVE sort_by_key(_)
\* candidate_positions.sort(key=...): stable, ascending
sort_by_key(s) ==
    IF s = <<>> THEN <<>>
    ELSE insert_by_key(sort_by_key(SubSeq(s, 1, Len(s) - 1)), s[Len(s)])

RECURSIVE first_feasible(_, _, _, _, _, _, _)
\* find_placement_position: the loop over the sorted candidates from index i
first_feasible(c, placed, cands, i, l, w, h) ==
    IF i > Len(cands) THEN [ok |-> FALSE, x |-> 0, y |-> 0, z |-> 0]
    ELSE IF can_place(c, placed, cands[i][1], cands[i][2], cands[i][3], l, w, h)
         THEN [ok |-> TRUE, x |-> cands[i][1], y |-> cands[i][2], z |-> cands[i][3]]
         ELSE first_feasible(c, placed, cands, i + 1, l, w, h)

\* Container.find_placement_position
find_placement_position(c, placed, l, w, h) ==
    first_feasible(c, placed, sort_by_key(candidate_positions(placed)), 1, l, w, h)

RECURSIVE try_rotations(_, _, _, _, _, _)
\* place_box: the loop over the rotations from index i
try_rotations(c, placed, b, box_id, rots, i) ==
    IF i > Len(rots) THEN [ok |-> FALSE, placed_boxes |-> placed]
    ELSE LET r == rots[i]
             f == find_placement_position(c, placed, r[1], r[2], r[3])
         IN IF f.ok
            THEN [ok |-> TRUE,
                  placed_boxes |->
                      Append(placed, Position(f.x, f.y, f.z, r[1], r[2], r[3],
                                              b.name, box_id))]
            ELSE try_rotations(c, placed, b, box_id, rots, i + 1)

\* place_box appending the record before it looks at the flag that
\* find_placement_position returned
place_box_ignoring_flag(c, placed, b, box_id) ==
    LET r == get_rotations(b)[1]
        f == find_placement_position(c, placed, r[1], r[2], r[3])
    IN [ok |-> f.ok,
        placed_boxes |->
            Append(placed, Position(f.x, f.y, f.z, r[1], r[2], r[3],
                                    b.name, box_id))]

\* place_box putting the new record in front of the older ones
place_box_newest_first(c, placed, b, box_id) ==
    LET r == try_rotations(c, placed, b, box_id, get_rotations(b), 1)
    IN IF r.ok
       THEN [ok |-> TRUE,
             placed_boxes |->
                 <<r.placed_boxes[Len(r.placed_boxes)]>> \o placed]
       ELSE r

\* place_box trying the item as given only, without turning it
place_box_first_rotation_only(c, placed, b, box_id) ==
    try_rotations(c, placed, b, box_id, <<get_rotations(b)[1]>>, 1)

\* Container.place_box: the return value and the container's new placed_boxes
place_box(c, placed, b, box_id) ==
    try_rotations(c, placed, b, box_id, get_rotations(b), 1)

----------------------------------------------------------------------------
(* solve_packing_problem *)

\* the insertion of a sort that is not stable: b goes before the entries of
\* its own volume
insert_by_volume_before_ties(s, b) ==
    LET k == Cardinality({i \in 1..Len(s) : volume(s[i]) > volume(b)})
    IN SubSeq(s, 1, k) \o <<b>> \o SubSeq(s, k + 1, Len(s))

\* insert b into the list s, sorted by descending volume, after every entry
\* whose volume is not smaller
insert_by_volume(s, b) ==
    LET k == Cardinality({i \in 1..Len(s) : volume(s[i]) >= volume(b)})
    IN SubSeq(s, 1, k) \o <<b>> \o SubSeq(s, k + 1, Len(s))

\* the manifest left in the order it was given
keep_input_order(s) == s

RECURSIVE sort_by_volume(_)
\* boxes.sort(key=lambda b: b.volume(), reverse=True): stable, descending
sort_by_volume(s) ==
    IF s = <<>> THEN <<>>
    ELSE insert_by_volume(sort_by_volume(SubSeq(s, 1, Len(s) - 1)), s[Len(s)])

\* the batch loop without its else branch
batch_result_no_else(count, failed, b, ok) ==
    IF ok THEN [placed_count |-> count + 1, failed_boxes |-> failed]
    ELSE [placed_count |-> count, failed_boxes |-> failed]

\* the body of the batch loop after place_box returned ok for box b
batch_result(count, failed, b, ok) ==
    IF ok THEN [placed_count |-> count + 1, failed_boxes |-> failed]
    ELSE [placed_count |-> count, failed_boxes |-> Append(failed, b)]

RECURSIVE pack_in_order(_, _, _)
\* the loop `for box in boxes` run on an empty container over the first n
\* of the given boxes, in the order given
pack_in_order(c, items, n) ==
    IF n = 0
    THEN [placed_boxes |-> <<>>, placed_count |-> 0, failed_boxes |-> <<>>]
    ELSE LET s == pack_in_order(c, items, n - 1)
             r == place_box(c, s.placed_boxes, items[n], items[n].id)
             o == batch_result(s.placed_count, s.failed_boxes, items[n], r.ok)
         IN [placed_boxes |-> r.placed_boxes,
             placed_count |-> o.placed_count,
             failed_boxes |-> o.failed_boxes]

\* the manifests a caller may hand over: up to MaxItems boxes, numbered in
\* input order
Manifests ==
    UNION {[1..n -> BoxDims \X BoxDims \X BoxDims] : n \in 0..MaxItems}

ManifestBoxes(m) ==
    [i \in 1..Len(m) |-> Box("cargo", m[i][1], m[i][2], m[i][3], i)]

\* solve_packing_problem up to line 189: the container and the manifest exist
Init ==
    /\ \E l \in RawDims, w \in RawDims, h \in RawDims :
           container = Container(l, w, h)
    /\ placed_boxes = <<>>
    /\ \E m \in Manifests : boxes = ManifestBoxes(m)
    /\ pc = "sort"
    /\ idx = 1
    /\ box = NoBox
    /\ ret = "none"
    /\ placed_count = 0
    /\ failed_boxes = <<>>
    /\ hcs_box = NoBox
    /\ hcs_count = 0
    /\ hcs_id = 1
    /\ attempted = <<>>
    /\ rotations = <<>>

\* lines 190-195
Sort ==
    /\ pc = "sort"
    /\ boxes' = sort_by_volume(boxes)
    /\ placed_count' = 0
    /\ failed_boxes' = <<>>
    /\ idx' = 1
    /\ pc' = "load"
    /\ UNCHANGED <<container, placed_boxes, box, ret, hcs_box, hcs_count,
                   hcs_id, attempted, rotations>>

\* lines 198-202: one iteration of `for box in boxes`, in a model that
\* stops adding records once the container holds cap of them
LoadUpTo(cap) ==
    /\ pc = "load"
    /\ idx <= Len(boxes)
    /\ LET b == boxes[idx]
           r == place_box(container, placed_boxes, b, b.id)
           o == batch_result(placed_count, failed_boxes, b, r.ok)
       IN /\ r.ok => Len(placed_boxes) < cap
          /\ placed_boxes' = r.placed_boxes
          /\ placed_count' = o.placed_count
          /\ failed_boxes' = o.failed_boxes
          /\ box' = b
          /\ ret' = Returned(r.ok)
          /\ attempted' = Append(attempted, b)
    /\ idx' = idx + 1
    /\ UNCHANGED <<container, boxes, pc, hcs_box, hcs_count, hcs_id, rotations>>

Load == LoadUpTo(MaxPlaced)

\* lines 214-217: the loop is over, the filler is built with one of the
\* given (length, width, height)
StartProbeWith(fillers) ==
    /\ pc = "load"
    /\ idx > Len(boxes)
    /\ \E f \in fillers : hcs_box' = Box("HCS", f[1], f[2], f[3], 0)
    /\ hcs_count' = 0
    /\ hcs_id' = 1
    /\ pc' = "probe"
    /\ UNCHANGED <<container, placed_boxes, boxes, idx, box, ret, placed_count,
                   failed_boxes, attempted, rotations>>

StartProbe == StartProbeWith(BoxDims \X BoxDims \X BoxDims)

\* lines 221-227: one iteration of `while True`, in a model that stops adding
\* records once the container holds cap of them
ProbeUpTo(cap) ==
    /\ pc = "probe"
    /\ LET hcs_test == Box("HCS", hcs_box.length, hcs_box.width,
                           hcs_box.height, hcs_id)
           r == place_box(container, placed_boxes, hcs_test, hcs_id)
       IN /\ r.ok => Len(placed_boxes) < cap
          /\ placed_boxes' = r.placed_boxes
          /\ box' = hcs_test
          /\ ret' = Returned(r.ok)
          /\ IF r.ok
             THEN hcs_count' = hcs_count + 1 /\ hcs_id' = hcs_id + 1 /\ pc' = pc
             ELSE hcs_count' = hcs_count /\ hcs_id' = hcs_id /\ pc' = "done"
    /\ UNCHANGED <<container, boxes, idx, placed_count, failed_boxes, hcs_box,
                   attempted, rotations>>

Probe == ProbeUpTo(MaxPlaced)

Next == Sort \/ Load \/ StartProbe \/ Probe

Spec == Init /\ [][Next]_vars

----------------------------------------------------------------------------
(* solve_packing_problem on the scenarios' containers and items *)

\* the manifests of the scenarios: up to MaxScenItems items of ScenTypes in
\* any order, or up to MaxCubes unit cubes
ScenManifests ==
    UNION {[1..n -> ScenTypes] : n \in 0..MaxScenItems}
      \cup {[i \in 1..n |-> <<1, 1, 1>>] : n \in 0..MaxCubes}

ScenBoxes(m) ==
    [i \in 1..Len(m) |->
        Box("cargo", m[i][1] * Unit, m[i][2] * Unit, m[i][3] * Unit, i)]

InitScen ==
    /\ \E c \in ScenContainers :
           container = Container(c[1] * Unit, c[2] * Unit, c[3] * Unit)
    /\ placed_boxes = <<>>
    /\ \E m \in ScenManifests : boxes = ScenBoxes(m)
    /\ pc = "sort"
    /\ idx = 1
    /\ box = NoBox
    /\ ret = "none"
    /\ placed_count = 0
    /\ failed_boxes = <<>>
    /\ hcs_box = NoBox
    /\ hcs_count = 0
    /\ hcs_id = 1
    /\ attempted = <<>>
    /\ rotations = <<>>

LoadScen == LoadUpTo(MaxScenPlaced)

StartProbeScen == StartProbeWith(ScenFillers)

ProbeScen == ProbeUpTo(MaxScenPlaced)

NextScen == Sort \/ LoadScen \/ StartProbeScen \/ ProbeScen

SpecScen == InitScen /\ [][NextScen]_vars

----------------------------------------------------------------------------
(* Any sequence of place_box calls on one Container *)

InitCalls ==
    /\ \E l \in ContainerDims, w \in ContainerDims, h \in ContainerDims :
           container = Container(l, w, h)
    /\ placed_boxes = <<>>
    /\ boxes = <<>>
    /\ pc = "calls"
    /\ idx = 1
    /\ box = NoBox
    /\ ret = "none"
    /\ placed_count = 0
    /\ failed_boxes = <<>>
    /\ hcs_box = NoBox
    /\ hcs_count = 0
    /\ hcs_id = 1
    /\ attempted = <<>>
    /\ rotations = <<>>

\* container.place_box(box, box.id) for a box of the caller's choice
Call ==
    /\ pc = "calls"
    /\ \E l \in BoxDims, w \in BoxDims, h \in BoxDims :
         LET b == Box("cargo", l, w, h, Len(placed_boxes) + 1)
             r == place_box(container, placed_boxes, b, b.id)
         IN /\ r.ok => Len(placed_boxes) < MaxPlaced
            /\ placed_boxes' = r.placed_boxes
            /\ box' = b
            /\ ret' = Returned(r.ok)
    /\ UNCHANGED <<container, boxes, pc, idx, placed_count, failed_boxes,
                   hcs_box, hcs_count, hcs_id, attempted, rotations>>

NextCalls == Call

SpecCalls == InitCalls /\ [][NextCalls]_vars

----------------------------------------------------------------------------
(* get_rotations on its own *)

InitRot ==
    /\ container = NoContainer
    /\ placed_boxes = <<>>
    /\ boxes = <<>>
    /\ pc = "rot"
    /\ idx = 1
    /\ \E l \in 0..MaxRotDim, w \in 0..MaxRotDim, h \in 0..MaxRotDim :
           box = Box("cargo", l, w, h, 1)
    /\ ret = "none"
    /\ placed_count = 0
    /\ failed_boxes = <<>>
    /\ hcs_box = NoBox
    /\ hcs_count = 0
    /\ hcs_id = 1
    /\ attempted = <<>>
    /\ rotations = <<>>

\* box.get_rotations()
Rotate ==
    /\ pc = "rot"
    /\ rotations' = get_rotations(box)
    /\ pc' = "rotated"
    /\ UNCHANGED <<container, placed_boxes, boxes, idx, box, ret, placed_count,
                   failed_boxes, hcs_box, hcs_count, hcs_id, attempted>>

NextRot == Rotate

SpecRot == InitRot /\ [][NextRot]_vars

----------------------------------------------------------------------------
(* Properties *)

\* the recorded boxes, two at a time
Pairs == {pr \in (1..Len(placed_boxes)) \X (1..Len(placed_boxes)) : pr[1] < pr[2]}

\* a record whose three extents all exceed the tolerance
Thick(p) == p.length > EPS /\ p.width > EPS /\ p.height > EPS

\* on some axis a gap of at least the tolerance lies between the two boxes
GapOfEps(a, b) ==
    \/ b.x - (a.x + a.length) >= EPS
    \/ a.x - (b.x + b.length) >= EPS
    \/ b.y - (a.y + a.width) >= EPS
    \/ a.y - (b.y + b.width) >= EPS
    \/ b.z - (a.z + a.height) >= EPS
    \/ a.z - (b.z + b.height) >= EPS

\* on some axis one box ends no more than the tolerance past the point where
\* the other begins
ApartUpToEps(a, b) ==
    \/ (a.x + a.length) - b.x <= EPS
    \/ (b.x + b.length) - a.x <= EPS
    \/ (a.y + a.width) - b.y <= EPS
    \/ (b.y + b.width) - a.y <= EPS
    \/ (a.z + a.height) - b.z <= EPS
    \/ (b.z + b.height) - a.z <= EPS

\* C1 as stated: after any sequence of place_box calls every two records of
\* placed_boxes have, on some axis, a gap of at least the tolerance between
\* them.
NonOverlapWithGap ==
    \A pr \in Pairs : GapOfEps(placed_boxes[pr[1]], placed_boxes[pr[2]])

\* C1 as amended: after any sequence of place_box calls every two records of
\* placed_boxes are apart up to the tolerance: on some axis one of them ends
\* at most the tolerance past the near face of the other, so they may touch
\* or share a slice no thicker than the tolerance.
NonOverlapUpToEps ==
    \A pr \in Pairs : ApartUpToEps(placed_boxes[pr[1]], placed_boxes[pr[2]])

\* three thick boxes are recorded, the last of them above the floor or away
\* from the back left corner
NonOverlapWitness ==
    /\ Len(placed_boxes) = 3
    /\ \A i \in 1..3 : Thick(placed_boxes[i])
    /\ placed_boxes[3].x + placed_boxes[3].y + placed_boxes[3].z > 0

\* C2: after any sequence of place_box calls with positive dimensions every
\* record starts at non-negative coordinates and ends within the container's
\* length, width and height plus the tolerance.
Containment ==
    \A i \in 1..Len(placed_boxes) :
        LET p == placed_boxes[i] IN
        /\ p.x >= 0 /\ p.y >= 0 /\ p.z >= 0
        /\ p.x + p.length <= container.length + EPS
        /\ p.y + p.width <= container.width + EPS
        /\ p.z + p.height <= container.height + EPS

\* records sit to the right of and in front of the first one, against the
\* container's far walls
ContainmentWitness ==
    /\ \E i \in 1..Len(placed_boxes) :
           /\ placed_boxes[i].x > 0
           /\ placed_boxes[i].x + placed_boxes[i].length = container.length
    /\ \E i \in 1..Len(placed_boxes) :
           /\ placed_boxes[i].y > 0
           /\ placed_boxes[i].y + placed_boxes[i].width = container.width

\* C3: after any sequence of place_box calls with positive dimensions the
\* used volume is at most the container's volume, so the available volume is
\* never negative.
VolumeConservation ==
    /\ used_volume(placed_boxes) <= container_volume(container)
    /\ available_volume(container, placed_boxes) >= 0

\* C4: a place_box call that returns False leaves placed_boxes and the used
\* volume as they were, and no call appends more than one record.
AllOrNothing ==
    [][/\ Len(placed_boxes') <= Len(placed_boxes) + 1
       /\ ret' = "False" =>
              /\ placed_boxes' = placed_boxes
              /\ used_volume(placed_boxes') = used_volume(placed_boxes)]_vars

\* a call was refused by a container that holds records
AllOrNothingWitness ==
    /\ pc = "calls"
    /\ ret = "False"
    /\ Len(placed_boxes) >= 1

\* where a record sits and what it occupies
Geometry(p) == <<p.x, p.y, p.z, p.length, p.width, p.height>>

Geometries(placed) == {Geometry(placed[i]) : i \in 1..Len(placed)}

PositiveContainer ==
    container.length > 0 /\ container.width > 0 /\ container.height > 0

\* C5: the capacity probe stops.  What place_box returns depends only on
\* where the recorded boxes sit, so the loop stops exactly if every
\* successful iteration records a box where none of the same extents sat
\* before; an iteration that succeeds without that succeeds again for ever.
ProbeTerminates ==
    [][(PositiveContainer /\ pc = "probe" /\ hcs_count' = hcs_count + 1)
         => Geometries(placed_boxes') # Geometries(placed_boxes)]_vars

\* C6: no placement is ever run on a non-positive extent, because a
\* Container or Box with a dimension <= 0 is rejected when it is constructed.
InvalidDimensionsRejected ==
    ret # "none" =>
        /\ PositiveContainer
        /\ box.length > 0 /\ box.width > 0 /\ box.height > 0

\* the six axis permutations of a box in the order get_rotations lists them
SixRotations(b) ==
    << <<b.length, b.width, b.height>>, <<b.length, b.height, b.width>>,
       <<b.width, b.length, b.height>>, <<b.width, b.height, b.length>>,
       <<b.height, b.length, b.width>>, <<b.height, b.width, b.length>> >>

\* where a triple first stands in a list (0 if nowhere)
FirstIndex(s, t) ==
    IF \E i \in 1..Len(s) : s[i] = t
    THEN CHOOSE i \in 1..Len(s) : s[i] = t /\ \A j \in 1..(i - 1) : s[j] # t
    ELSE 0

RotationsListed ==
    pc = "rotated" =>
        LET six == SixRotations(box)
            n == Len(rotations)
            equal == Cardinality({box.length, box.width, box.height})
        IN /\ n >= 1 /\ n <= 6
           /\ \A i \in 1..n : FirstIndex(six, rotations[i]) > 0
           /\ \A i \in 1..6 : FirstIndex(rotations, six[i]) > 0
           /\ \A i \in 1..n : \A j \in 1..n : i # j => rotations[i] # rotations[j]
           /\ \A i \in 1..n : \A j \in 1..n :
                  i < j => FirstIndex(six, rotations[i]) < FirstIndex(six, rotations[j])
           /\ equal = 1 => n = 1
           /\ equal = 2 => n = 3
           /\ equal = 3 => n = 6

\* C8: get_rotations returns the permutations of (l,w,h) in the fixed order
\* (l,w,h),(l,h,w),(w,l,h),(w,h,l),(h,l,w),(h,w,l) with later duplicates
\* removed: 1 to 6 entries, 1 for a cube, 3 when exactly two dimensions are
\* equal, 6 when all differ; the box itself is left as it was.
RotationsCorrect == []RotationsListed /\ [][box' = box]_vars

\* get_rotations has run on a box with exactly two equal dimensions
RotationsWitness ==
    /\ pc = "rotated"
    /\ box.length = box.height
    /\ box.length # box.width
    /\ Len(rotations) = 3

\* C9: the batch loop passes the boxes to place_box in order of
\* non-increasing volume, and boxes of equal volume in their input order.
BatchOrder ==
    \A i \in 1..Len(attempted) : \A j \in 1..Len(attempted) :
        i < j =>
            /\ volume(attempted[i]) >= volume(attempted[j])
            /\ volume(attempted[i]) = volume(attempted[j])
                   => attempted[i].id < attempted[j].id

\* two boxes of equal volume and different shape were attempted
BatchOrderWitness ==
    /\ Len(attempted) = 2
    /\ volume(attempted[1]) = volume(attempted[2])
    /\ attempted[1].length # attempted[2].length

\* the records placed_boxes holds for box b of the manifest
RecordsOf(b) ==
    {i \in 1..Len(placed_boxes) :
        placed_boxes[i].box_name = b.name /\ placed_boxes[i].box_id = b.id}

\* the places box b takes in the list s
PlacesIn(s, b) == {i \in 1..Len(s) : s[i] = b}

\* C10: in one run of the batch loop every box of the manifest is passed to
\* place_box exactly once and ends either counted as placed, with exactly one
\* record, or in failed_boxes; placed_count + len(failed_boxes) is the number
\* of boxes, failed_boxes is in processing order, and no box is attempted
\* again.
BatchPartition ==
    pc \in {"load", "probe", "done"} =>
        /\ \A i \in 1..Len(boxes) : Cardinality(PlacesIn(attempted, boxes[i])) <= 1
        /\ placed_count + Len(failed_boxes) = Len(attempted)
        /\ \A i \in 1..Len(attempted) :
               LET b == attempted[i] IN
               \/ Cardinality(PlacesIn(failed_boxes, b)) = 1 /\ RecordsOf(b) = {}
               \/ PlacesIn(failed_boxes, b) = {} /\ Cardinality(RecordsOf(b)) = 1
        /\ placed_count =
               Cardinality({i \in 1..Len(attempted) :
                               PlacesIn(failed_boxes, attempted[i]) = {}})
        /\ \A k \in 1..Len(failed_boxes) : \A m \in 1..Len(failed_boxes) :
               k < m =>
                   \E i \in 1..Len(attempted) : \E j \in 1..Len(attempted) :
                       i < j /\ attempted[i] = failed_boxes[k]
                             /\ attempted[j] = failed_boxes[m]
        /\ pc \in {"probe", "done"} =>
               /\ \A i \in 1..Len(boxes) :
                      Cardinality(PlacesIn(attempted, boxes[i])) = 1
               /\ placed_count + Len(failed_boxes) = Len(boxes)

\* the batch loop is over with one box placed and one rejected
BatchPartitionWitness ==
    /\ pc = "probe"
    /\ placed_count = 1
    /\ Len(failed_boxes) = 1


Min(a, b) == IF a <= b THEN a ELSE b

Max(a, b) == IF a >= b THEN a ELSE b

\* the length that the intervals [n1, f1] and [n2, f2] share; negative when
\* a gap lies between them
Overlap(n1, f1, n2, f2) == Min(f1, f2) - Max(n1, n2)

OverlapX(a, b) == Overlap(a.x, a.x + a.length, b.x, b.x + b.length)

OverlapY(a, b) == Overlap(a.y, a.y + a.width, b.y, b.y + b.width)

OverlapZ(a, b) == Overlap(a.z, a.z + a.height, b.z, b.z + b.height)

\* C15: after any sequence of place_box calls every two records of
\* placed_boxes have an axis on which their intervals share no more than the
\* tolerance: no two records interpenetrate by more than the tolerance on all
\* three axes at once.
BoundedInterpenetration ==
    \A pr \in Pairs :
        LET a == placed_boxes[pr[1]]
            b == placed_boxes[pr[2]]
        IN OverlapX(a, b) <= EPS \/ OverlapY(a, b) <= EPS \/ OverlapZ(a, b) <= EPS

\* two records share exactly the tolerance on one axis and more than it on
\* the other two, and two thick records touch on one axis and share more than
\* the tolerance on the other two
BoundedInterpenetrationWitness ==
    /\ \E pr \in Pairs :
           LET a == placed_boxes[pr[1]]
               b == placed_boxes[pr[2]]
           IN OverlapX(a, b) = EPS /\ OverlapY(a, b) > EPS /\ OverlapZ(a, b) > EPS
    /\ \E pr \in Pairs :
           LET a == placed_boxes[pr[1]]
               b == placed_boxes[pr[2]]
           IN /\ Thick(a) /\ Thick(b)
              /\ OverlapX(a, b) = 0 /\ OverlapY(a, b) > EPS /\ OverlapZ(a, b) > EPS

\* the candidate origins that a list of records gives: the back left bottom
\* corner and, for every record, the three points past it along each axis
OriginsOf(placed) ==
    {<<0, 0, 0>>}
      \cup UNION {{<<placed[i].x + placed[i].length, placed[i].y, placed[i].z>>,
                   <<placed[i].x, placed[i].y + placed[i].width, placed[i].z>>,
                   <<placed[i].x, placed[i].y, placed[i].z + placed[i].height>>} :
                  i \in 1..Len(placed)}

\* the candidate origins at which can_place accepts an oriented box beside
\* the records of a list
FeasibleAmong(placed, l, w, h) ==
    {c \in OriginsOf(placed) :
        can_place(container, placed, c[1], c[2], c[3], l, w, h)}

CandidateOrigins == OriginsOf(placed_boxes)

FeasibleOrigins(l, w, h) == FeasibleAmong(placed_boxes, l, w, h)

\* (x, y, z) triples compared by z, then x, then y
ZXYBefore(a, b) == <<a[3], a[1], a[2]>> = <<b[3], b[1], b[2]>>
                   \/ a[3] < b[3]
                   \/ (a[3] = b[3] /\ a[1] < b[1])
                   \/ (a[3] = b[3] /\ a[1] = b[1] /\ a[2] < b[2])

\* the items and fillers of the scenarios in every orientation
OrientedBoxes ==
    LET dims == {<<t[1] * Unit, t[2] * Unit, t[3] * Unit>> : t \in ScenTypes}
                  \cup ScenFillers
    IN UNION {{get_rotations(Box("any", d[1], d[2], d[3], 0))[i] :
                  i \in 1..Len(get_rotations(Box("any", d[1], d[2], d[3], 0)))} :
              d \in dims}

\* C16: in every state of a container, for every oriented box,
\* find_placement_position looks at exactly the origin and the three corner
\* points of every record, fails exactly when can_place refuses the box at
\* all of them, and otherwise returns the accepted candidate that is first
\* by (z, x, y).
CandidateSearch ==
    /\ LET cands == candidate_positions(placed_boxes)
       IN {cands[i] : i \in 1..Len(cands)} = CandidateOrigins
    /\ \A o \in OrientedBoxes :
           \A r \in {find_placement_position(container, placed_boxes,
                                             o[1], o[2], o[3])},
              feasible \in {FeasibleOrigins(o[1], o[2], o[3])} :
              /\ r.ok <=> feasible # {}
              /\ r.ok => /\ <<r.x, r.y, r.z>> \in feasible
                         /\ \A c \in feasible : ZXYBefore(<<r.x, r.y, r.z>>, c)

\* the container holds records, it has no room for one oriented box at any
\* candidate, and another goes to a candidate that is neither the origin nor
\* first by (x, y, z), past a candidate that is refused
CandidateSearchWitness ==
    /\ Len(placed_boxes) >= 2
    /\ \E o \in OrientedBoxes : FeasibleOrigins(o[1], o[2], o[3]) = {}
    /\ \E o \in OrientedBoxes :
           LET r == find_placement_position(container, placed_boxes,
                                            o[1], o[2], o[3])
           IN /\ r.ok
              /\ <<r.x, r.y, r.z>> # <<0, 0, 0>>
              /\ \E c \in CandidateOrigins :
                     /\ c \notin FeasibleOrigins(o[1], o[2], o[3])
                     /\ ZXYBefore(c, <<r.x, r.y, r.z>>)
              /\ \E c \in FeasibleOrigins(o[1], o[2], o[3]) :
                     key_less_xyz(c, <<r.x, r.y, r.z>>)


\* a step of the packing procedure that calls place_box, on the item box'
PlaceBoxCalled == (pc = "load" /\ pc' = "load") \/ pc = "probe"

\* the places in an item's rotation list of the orientations that have a
\* feasible candidate beside the records of a list
FeasibleRotations(placed, b) ==
    UNION {{i \in 1..Len(rots) :
               \E c \in OriginsOf(placed) :
                   can_place(container, placed, c[1], c[2], c[3],
                             rots[i][1], rots[i][2], rots[i][3])} :
           rots \in {get_rotations(b)}}

\* C17: a place_box call returns False exactly when no orientation of the
\* item has a feasible candidate; otherwise it appends the item in the
\* earliest orientation of get_rotations that has one, at the feasible
\* candidate of that orientation that is first by (z, x, y), whatever the
\* later orientations could reach.
OrientationPriority ==
    [][PlaceBoxCalled =>
          \A feasible \in {FeasibleRotations(placed_boxes, box')} :
             /\ ret' = "False" <=> feasible = {}
             /\ ret' = "True" =>
                   \E k \in feasible :
                      /\ \A j \in feasible : k <= j
                      /\ \A r \in {get_rotations(box')[k]},
                            p \in {placed_boxes'[Len(placed_boxes')]} :
                            /\ Len(placed_boxes') = Len(placed_boxes) + 1
                            /\ <<p.length, p.width, p.height>> = r
                            /\ <<p.x, p.y, p.z>> \in
                                   FeasibleOrigins(r[1], r[2], r[3])
                            /\ \A c \in FeasibleOrigins(r[1], r[2], r[3]) :
                                   ZXYBefore(<<p.x, p.y, p.z>>, c)]_vars

\* the last record went in beside the records before it in the item's first
\* orientation although a later orientation of the item was feasible at a
\* candidate that comes earlier by (z, x, y)
OrientationPriorityWitness ==
    /\ ret = "True"
    /\ Len(placed_boxes) >= 2
    /\ LET pre == SubSeq(placed_boxes, 1, Len(placed_boxes) - 1)
           p == placed_boxes[Len(placed_boxes)]
       IN /\ <<p.length, p.width, p.height>> = get_rotations(box)[1]
          /\ \E i \in FeasibleRotations(pre, box) :
                 /\ i > 1
                 /\ \E c \in FeasibleAmong(pre, get_rotations(box)[i][1],
                                           get_rotations(box)[i][2],
                                           get_rotations(box)[i][3]) :
                        /\ c # <<p.x, p.y, p.z>>
                        /\ ZXYBefore(c, <<p.x, p.y, p.z>>)


\* C18: a place_box call never changes the container's length, width and
\* height, keeps the old placed_boxes as a prefix of the new one, never
\* lowers the used volume, and when it returns True the new placed_boxes is
\* the old one with exactly one record appended.
AppendOnly ==
    [][/\ container' = container
       /\ Len(placed_boxes') >= Len(placed_boxes)
       /\ SubSeq(placed_boxes', 1, Len(placed_boxes)) = placed_boxes
       /\ used_volume(placed_boxes') >= used_volume(placed_boxes)
       /\ ret' = "True" => Len(placed_boxes') = Len(placed_boxes) + 1
       /\ ret' = "False" => Len(placed_boxes') = Len(placed_boxes)]_vars

\* a call was accepted by a container that held two different records
AppendOnlyWitness ==
    /\ pc = "calls"
    /\ ret = "True"
    /\ Len(placed_boxes) = 3
    /\ Geometry(placed_boxes[1]) # Geometry(placed_boxes[2])

\* is the item b among the rejected ones
Rejected(b) == \E i \in 1..Len(failed_boxes) : failed_boxes[i] = b

\* the items that place_box accepted, in the order of the calls: the items of
\* the manifest that were not rejected, then the fillers of the probe
PlacedItems ==
    SelectSeq(attempted, LAMBDA b : ~ Rejected(b))
      \o [k \in 1..hcs_count |->
             Box("HCS", hcs_box.length, hcs_box.width, hcs_box.height, k)]

RECURSIVE SumOfVolumes(_)
\* the volumes of a list of items, added up
SumOfVolumes(items) ==
    IF items = <<>> THEN 0
    ELSE volume(items[1]) + SumOfVolumes(Tail(items))

\* how many of the three values of d equal v
Count(d, v) == Cardinality({k \in 1..3 : d[k] = v})

\* the triple d holds the values of the triple e in some order
Permutation(d, e) == \A k \in 1..3 : Count(d, e[k]) = Count(e, e[k])

\* C19: the records of placed_boxes are those of the accepted items in the
\* order of their calls: each carries its item's name and id and the item's
\* three dimensions in some order, the used volume is the sum of the items'
\* volumes, and used and available volume add up to the container's volume.
RecordsMatchItems ==
    /\ Len(placed_boxes) = Len(PlacedItems)
    /\ \A i \in 1..Len(placed_boxes) :
           LET p == placed_boxes[i]
               b == PlacedItems[i]
           IN /\ p.box_name = b.name
              /\ p.box_id = b.id
              /\ Permutation(<<p.length, p.width, p.height>>,
                             <<b.length, b.width, b.height>>)
    /\ used_volume(placed_boxes) = SumOfVolumes(PlacedItems)
    /\ used_volume(placed_boxes) + available_volume(container, placed_boxes)
         = container_volume(container)

\* an item of the manifest was rejected, one was recorded turned, and a
\* filler was recorded after them
RecordsMatchItemsWitness ==
    /\ failed_boxes # <<>>
    /\ hcs_count >= 1
    /\ \E i \in 1..Len(placed_boxes) :
           /\ placed_boxes[i].box_name = "cargo"
           /\ <<placed_boxes[i].length, placed_boxes[i].width,
                placed_boxes[i].height>>
                # <<PlacedItems[i].length, PlacedItems[i].width,
                     PlacedItems[i].height>>


\* the three dimensions of an item as given
Dims(b) == <<b.length, b.width, b.height>>

\* every item of the manifest has been attempted and the probe has not yet
\* recorded a filler
BatchDone == pc # "sort" /\ idx > Len(boxes) /\ hcs_count = 0

\* container (2,2,2) and eight items (1,1,1)
ScenarioA ==
    /\ container = Container(2 * Unit, 2 * Unit, 2 * Unit)
    /\ Len(boxes) = 8
    /\ \A i \in 1..8 : Dims(boxes[i]) = <<Unit, Unit, Unit>>

\* C11: the packing procedure on the container (2,2,2) with eight items
\* (1,1,1) places all eight, rejects none, and ends with the used volume
\* equal to the container's volume.
ExactFill ==
    (ScenarioA /\ BatchDone) =>
        /\ placed_count = 8
        /\ Len(placed_boxes) = 8
        /\ failed_boxes = <<>>
        /\ used_volume(placed_boxes) = container_volume(container)
        /\ available_volume(container, placed_boxes) = 0

\* the eight cubes have been attempted and the last of them sits in the
\* corner away from the origin
ExactFillWitness ==
    /\ ScenarioA
    /\ BatchDone
    /\ Len(attempted) = 8
    /\ Len(placed_boxes) = 8
    /\ <<placed_boxes[8].x, placed_boxes[8].y, placed_boxes[8].z>>
         = <<Unit, Unit, Unit>>

\* a list back to front
Reverse(s) == [i \in 1..Len(s) |-> s[Len(s) + 1 - i]]

\* container (2,1,1) and three items, two (1,1,1) and one (2,1,1), given in
\* any order
ScenarioD ==
    /\ container = Container(2 * Unit, Unit, Unit)
    /\ Len(boxes) = 3
    /\ Cardinality({i \in 1..3 : Dims(boxes[i]) = <<Unit, Unit, Unit>>}) = 2
    /\ Cardinality({i \in 1..3 : Dims(boxes[i]) = <<2 * Unit, Unit, Unit>>}) = 1

\* C12: on the container (2,1,1) with two items (1,1,1) and one (2,1,1) the
\* packing procedure attempts the (2,1,1) first, records it at (0,0,0) and
\* rejects both (1,1,1); the same loop run over the items in ascending
\* order of volume places both (1,1,1) and rejects the (2,1,1).
OrderChangesOutcome ==
    (ScenarioD /\ BatchDone) =>
        /\ Dims(attempted[1]) = <<2 * Unit, Unit, Unit>>
        /\ placed_count = 1
        /\ placed_boxes = <<Position(0, 0, 0, 2 * Unit, Unit, Unit,
                                     attempted[1].name, attempted[1].id)>>
        /\ failed_boxes = <<attempted[2], attempted[3]>>
        /\ LET asc == pack_in_order(container, Reverse(boxes), 3)
           IN /\ asc.placed_count = 2
              /\ asc.failed_boxes = <<attempted[1]>>
              /\ Len(asc.placed_boxes) = 2
              /\ \A i \in 1..2 :
                     <<asc.placed_boxes[i].length, asc.placed_boxes[i].width,
                       asc.placed_boxes[i].height>> = <<Unit, Unit, Unit>>

\* the three items were given smallest first and the procedure has attempted
\* them all
OrderChangesOutcomeWitness ==
    /\ ScenarioD
    /\ BatchDone
    /\ Len(attempted) = 3
    /\ attempted[1].id = 3

\* one dimension of the item b is more than the tolerance longer than each
\* of the container's length, width and height
Oversized(b) ==
    \E d \in {b.length, b.width, b.height} :
        \A e \in {container.length, container.width, container.height} :
            d > e + EPS

\* the items and fillers of the scenarios, under any name and id
ScenItems ==
    {Box("any", t[1] * Unit, t[2] * Unit, t[3] * Unit, 0) : t \in ScenTypes}
      \cup {Box("any", f[1], f[2], f[3], 0) : f \in ScenFillers}

\* C13: in every state of a container place_box returns False, and no
\* orientation has a feasible candidate, for an item that has a dimension
\* more than the tolerance longer than every dimension of the container; in
\* the packing procedure such an item ends in the rejected list, and on the
\* container (2,2,2) with the single item (3,1,1) the used volume stays 0.
OversizedRejected ==
    /\ \A b \in ScenItems :
           Oversized(b) =>
               /\ ~ place_box(container, placed_boxes, b, 0).ok
               /\ FeasibleRotations(placed_boxes, b) = {}
    /\ \A i \in 1..Len(attempted) :
           Oversized(attempted[i]) => Rejected(attempted[i])
    /\ (/\ container = Container(2 * Unit, 2 * Unit, 2 * Unit)
        /\ Len(boxes) = 1
        /\ Dims(boxes[1]) = <<3 * Unit, Unit, Unit>>
        /\ BatchDone)
           => /\ failed_boxes = boxes
              /\ placed_boxes = <<>>
              /\ used_volume(placed_boxes) = 0

\* the item (3,1,1) was rejected by the container (2,2,2), which then took
\* an item that fits
OversizedRejectedWitness ==
    /\ container = Container(2 * Unit, 2 * Unit, 2 * Unit)
    /\ BatchDone
    /\ ret = "True"
    /\ Len(placed_boxes) >= 1
    /\ \E i \in 1..Len(failed_boxes) :
           Dims(failed_boxes[i]) = <<3 * Unit, Unit, Unit>>

\* C14: the fillers that the capacity probe has counted never add up to more
\* than the container's volume.
ProbeBound ==
    (PositiveContainer /\ pc \in {"probe", "done"}) =>
        hcs_count * volume(hcs_box) <= container_volume(container)

\* the probe on the container (4,4,4) that holds one record (4,4,4) counts no
\* filler (1,1,1)
ProbeOfFullContainer ==
    (/\ container = Container(4 * Unit, 4 * Unit, 4 * Unit)
     /\ Len(boxes) = 1
     /\ Dims(boxes[1]) = <<4 * Unit, 4 * Unit, 4 * Unit>>
     /\ pc = "done")
        => hcs_count = 0


\* C20 as stated: an item that place_box refuses in some state of a
\* container is refused in every later state of it, whatever was recorded in
\* between.
RejectionPermanent ==
    [][\A b \in ScenItems :
           ~ place_box(container, placed_boxes, b, 0).ok
               => ~ place_box(container, placed_boxes', b, 0).ok]_vars


\* C20 as amended: an item that place_box refuses is refused again as long
\* as nothing is recorded, because a refused call leaves the container as it
\* was; once another item has been recorded the refused item may be accepted,
\* but only at a candidate origin that the records before did not give.
RejectionUntilNewCandidate ==
    [][\A b \in ScenItems :
          \A before \in {place_box(container, placed_boxes, b, 0)},
             after \in {place_box(container, placed_boxes', b, 0)} :
             ~ before.ok =>
                 /\ ret' = "False" => ~ after.ok
                 /\ after.ok =>
                        \A p \in {after.placed_boxes[Len(after.placed_boxes)]} :
                            <<p.x, p.y, p.z>> \notin OriginsOf(placed_boxes)]_vars

\* the container would have refused an item before its last record and
\* accepts it now
RejectionUntilNewCandidateWitness ==
    /\ ret = "True"
    /\ Len(placed_boxes) >= 1
    /\ \E b \in ScenItems :
           /\ ~ place_box(container,
                          SubSeq(placed_boxes, 1, Len(placed_boxes) - 1),
                          b, 0).ok
           /\ place_box(container, placed_boxes, b, 0).ok


\* where a record begins
Origin(p) == <<p.x, p.y, p.z>>

\* C21: in every state of a container the first record begins at (0,0,0),
\* and every later record begins at (0,0,0) or at one of the three points
\* past a record that precedes it: (P.x + P.length, P.y, P.z),
\* (P.x, P.y + P.width, P.z) or (P.x, P.y, P.z + P.height).
AnchoredOrigins ==
    /\ placed_boxes # <<>> => Origin(placed_boxes[1]) = <<0, 0, 0>>
    /\ \A i \in 1..Len(placed_boxes) :
           Origin(placed_boxes[i]) \in OriginsOf(SubSeq(placed_boxes, 1, i - 1))

\* a record begins above the floor on top of a record that is not the one
\* before it, and another begins on the floor away from the origin
AnchoredOriginsWitness ==
    /\ \E i \in 3..Len(placed_boxes) :
           /\ placed_boxes[i].z > 0
           /\ Origin(placed_boxes[i])
                \notin OriginsOf(<<placed_boxes[i - 1]>>)
           /\ \E j \in 1..(i - 2) :
                  Origin(placed_boxes[i])
                    = <<placed_boxes[j].x, placed_boxes[j].y,
                        placed_boxes[j].z + placed_boxes[j].height>>
    /\ \E i \in 2..Len(placed_boxes) :
           placed_boxes[i].z = 0 /\ Origin(placed_boxes[i]) # <<0, 0, 0>>

============================================================================
